---- MODULE Spec2Model ----
(***************************************************************************)
(* Model of src/repair_agent.py: AutomatedCodeCorrector, one batch run     *)
(* (menu choice "2": repair_all_programs followed by generate_report).     *)
(*                                                                         *)
(* The batch is a sequential program; pc is its position.  Everything the  *)
(* program reads from outside (files, the generator, the candidate's       *)
(* behaviour on a test, the tester process, the file system's answers) is  *)
(* drawn by \E at the step that reads it.  Exceptions are the subclasses   *)
(* of Exception, which is what the except clauses of the source catch.     *)
(* h records what happened in the current attempt (calls made, outcomes    *)
(* drawn), vrun the tests run by the call of validate_fix until its result *)
(* is used; both are observation only and no action's guard reads them.    *)
(* An enumeration starts with FirstId: the program treats all ids alike.   *)
(***************************************************************************)
EXTENDS Integers, Sequences, FiniteSets, TLC

VARIABLES
    defect_patterns,     \* self.defect_patterns, set by __init__
    algorithms,          \* repair_all_programs: the enumeration of algorithm ids
    idx,                 \* position of the for loop in algorithms (1-based)
    pc,                  \* position in the program
    results,             \* repair_all_programs: results dict (function on its keys)
    successful_repairs,  \* repair_all_programs: running count
    buggy_code,          \* repair_single_program local
    test_cases,          \* repair_single_program local
    fixed_code,          \* repair_single_program local
    passed_tests,        \* validate_fix local, then repair_single_program local
    ti,                  \* validate_fix: position of the test loop
    validation_success,  \* repair_single_program local
    tester_success,      \* repair_single_program local
    result,              \* value returned by repair_single_program
    err,                 \* the exception in flight (its descriptor), or NoErr
    fs,                  \* the files the program creates
    attempted,           \* the ids repair_single_program was called with, in order
    h,                   \* what happened in the current attempt
    vrun                 \* what happened in the running call of validate_fix

vars == <<defect_patterns, algorithms, idx, pc, results, successful_repairs, buggy_code, test_cases,
          fixed_code, passed_tests, ti, validation_success, tester_success, result,
          err, fs, attempted, h, vrun>>

(***************************************************************************)
(* Bounds of the model.                                                    *)
(***************************************************************************)
MaxAlgos == 2            \* longest enumeration of algorithm files
MaxTests == 2            \* longest oracle set

AlgoIds == {"gcd", "sqrt"}
FirstId == "gcd"

\* generate_enhanced_prompt reads the first three test cases
PromptTests == 3

(***************************************************************************)
(* Values.                                                                 *)
(***************************************************************************)
\* A text is the sequence of its characters, "range(" counting as one; None is
\* Python's None.
None == <<"<None>">>
EmptyText == << >>
TextSymbols == {"range(", "=", "!", ">", "<"}
BuggyTexts == { <<">">> }
FixedTexts == { <<"<">>, <<">", "=">> }

\* An oracle entry is one parsed line: a two-element list ("pair"), a longer
\* list ("long"), or a value that cannot be subscripted ("scalar").
EntryShapes == {"pair", "long", "scalar"}
SeqsUpTo(S, n) == UNION { [1..k -> S] : k \in 0..n }
\* The lines an oracle file may hold: one per entry shape, and one that is not JSON
LineTexts == {"[[35, 21], 7]", "[1, 2, 3]", "5", "not json"}
OracleLines == SeqsUpTo(LineTexts, MaxTests)
Enumerations == { e \in SeqsUpTo(AlgoIds, MaxAlgos) : Len(e) > 0 => e[1] = FirstId }

TestOutcomes == {"equal", "not_equal", "exception"}
LoadOutcomes == {"loaded", "parse_error", "no_function"}
TesterOutcomes == {"exit0", "exit1", "timeout", "error"}

NoFiles == [temp |-> {}, repaired |-> {}, results_json |-> FALSE, report_md |-> FALSE]
NoErr == "none"
NoResult == [none |-> TRUE]
EmptyDict == [k \in {} |-> NoResult]

H0 == [src |-> "none", oracle |-> "none", lines |-> << >>, gen |-> 0, val |-> 0, ret |-> FALSE,
       load |-> "none", tester |-> 0, tout |-> "none", saved |-> FALSE,
       classified |-> FALSE, raised |-> "none"]
V0 == [calls |-> << >>, outcomes |-> << >>]

(***************************************************************************)
(* The functions of the source that compute a value.  A function that may  *)
(* raise returns [raised, value]; raised is NoErr or the descriptor.       *)
(***************************************************************************)
Ret(v) == [raised |-> NoErr, value |-> v]
Raise(e) == [raised |-> e, value |-> None]

\* Python's  sub in text  for strings
Contains(sub, text) ==
    \E i \in 0..(Len(text) - Len(sub)) : SubSeq(text, i + 1, i + Len(sub)) = sub

\* Python truth value of a str-or-None and of a list
Falsy(x) == x = None \/ x = << >>

\* load_buggy_code: the file's text, None when the file is not there
load_buggy_code(exists, content) == IF exists THEN Ret(content) ELSE Ret(None)

\* json.loads(line.strip()) of line 29: the shape of the value, or JSONDecodeError
json_loads(line) ==
    CASE line = "[[35, 21], 7]" -> Ret("pair")
      [] line = "[1, 2, 3]" -> Ret("long")
      [] line = "5" -> Ret("scalar")
      [] OTHER -> Raise("JSONDecodeError")

\* load_test_cases: the list comprehension parses every line and raises at the
\* first line json.loads rejects; [] when the file is not there
load_test_cases_SkipsBadLines(exists, lines) ==
    IF ~exists THEN Ret(<< >>)
    ELSE LET good == SelectSeq(lines, LAMBDA l : json_loads(l).raised = NoErr)
         IN Ret([i \in 1..Len(good) |-> json_loads(good[i]).value])
load_test_cases(exists, lines) ==
    IF ~exists THEN Ret(<< >>)
    ELSE IF \E i \in 1..Len(lines) : json_loads(lines[i]).raised # NoErr
         THEN Raise("JSONDecodeError")
    ELSE Ret([i \in 1..Len(lines) |-> json_loads(lines[i]).value])

\* generate_enhanced_prompt subscripts tc[0] and tc[1] of the first three entries
Min(a, b) == IF a < b THEN a ELSE b
PromptRaises(tcs) == \E i \in 1..Min(Len(tcs), PromptTests) : tcs[i] = "scalar"

\* validate_fix, line 96
total_tests(tcs) == Len(tcs)

\* validate_fix, lines 112-116: the score after one call of the candidate
ScoreTest(outcome, passed) == IF outcome = "equal" THEN passed + 1 ELSE passed

\* validate_fix, line 125
validate_return_AnyPassed(passed, total) == <<passed > 0, passed>>
validate_return(passed, total) == <<passed = total, passed>>

\* run_tester_py
ReturnCode(outcome) == IF outcome = "exit0" THEN 0 ELSE 1
run_tester_py_TimeoutEscapes(outcome) ==
    IF outcome = "timeout" THEN Raise("TimeoutExpired")
    ELSE IF outcome = "error" THEN Ret(FALSE)
    ELSE Ret(ReturnCode(outcome) = 0)
run_tester_py(outcome) ==
    IF outcome = "timeout" THEN Ret(FALSE)
    ELSE IF outcome = "error" THEN Ret(FALSE)
    ELSE Ret(ReturnCode(outcome) = 0)

\* analyze_defect_pattern
analyze_defect_pattern_OperatorFirst(buggy, fixed) ==
    IF Contains(<<"=", "=">>, buggy) /\ Contains(<<"!", "=">>, fixed) THEN "incorrect-operator"
    ELSE IF Contains(<<"range(">>, buggy) /\ Contains(<<"range(">>, fixed)
         THEN "off-by-one-error"
    ELSE IF Contains(<<">">>, buggy) /\ Contains(<<"<">>, fixed) THEN "boundary-condition"
    ELSE "unknown-pattern"
analyze_defect_pattern(buggy, fixed) ==
    IF Contains(<<"range(">>, buggy) /\ Contains(<<"range(">>, fixed) THEN "off-by-one-error"
    ELSE IF Contains(<<"=", "=">>, buggy) /\ Contains(<<"!", "=">>, fixed)
         THEN "incorrect-operator"
    ELSE IF Contains(<<">">>, buggy) /\ Contains(<<"<">>, fixed) THEN "boundary-condition"
    ELSE "unknown-pattern"

\* extract_code_from_response.  A response is the sequence of its pieces: the fence
\* marker, the word python, a newline, and the head of a function definition.
Fence == "<fence>"       \* the three-backtick marker
Newline == "\n"
Def == "def f():"
ResponseSymbols == {Fence, "python", Newline, Def}
\* \w at the start of a piece, \s
IsWord(c) == c \in {"python", Def}
IsSpace(c) == c = Newline

\* str.strip()
RECURSIVE LStrip(_)
LStrip(t) == IF t # << >> /\ IsSpace(Head(t)) THEN LStrip(Tail(t)) ELSE t
RECURSIVE RStrip(_)
RStrip(t) == IF t # << >> /\ IsSpace(t[Len(t)]) THEN RStrip(SubSeq(t, 1, Len(t) - 1)) ELSE t
Strip(t) == RStrip(LStrip(t))

\* re.search(the fenced-block pattern, response, re.DOTALL), line 75: the leftmost
\* opening at which the pattern matches, and for it the nearest closing; 0 for None
OpensAt(t, i) == i + 2 <= Len(t) /\ t[i] = Fence /\ t[i + 1] = "python" /\ t[i + 2] = Newline
ClosesAt(t, j) == j + 1 <= Len(t) /\ t[j] = Newline /\ t[j + 1] = Fence
RECURSIVE FindClose(_, _)
FindClose(t, j) ==
    IF j > Len(t) THEN 0 ELSE IF ClosesAt(t, j) THEN j ELSE FindClose(t, j + 1)
RECURSIVE FindOpen(_, _)
FindOpen(t, i) ==
    IF i > Len(t) THEN 0
    ELSE IF OpensAt(t, i) /\ FindClose(t, i + 3) # 0 THEN i
    ELSE FindOpen(t, i + 1)

\* re.search(r'def\s+\w+.*?(?=\n\n|\n(?=\w)|\Z)', response, re.DOTALL), line 81: the
\* leftmost def, extended to the first place followed by a blank line, by a line
\* that starts with a word character, or by the end of the text; 0 for None
RECURSIVE FindDef(_, _)
FindDef(t, i) == IF i > Len(t) THEN 0 ELSE IF t[i] = Def THEN i ELSE FindDef(t, i + 1)
EndsAt(t, e) ==
    \/ e = Len(t)
    \/ e + 2 <= Len(t) /\ t[e + 1] = Newline /\ t[e + 2] = Newline
    \/ e + 2 <= Len(t) /\ t[e + 1] = Newline /\ IsWord(t[e + 2])
RECURSIVE FindEnd(_, _)
FindEnd(t, e) == IF EndsAt(t, e) THEN e ELSE FindEnd(t, e + 1)

extract_code_from_response_DefFirst(response) ==
    LET d == FindDef(response, 1)
        i == FindOpen(response, 1)
    IN IF d # 0 THEN Strip(SubSeq(response, d, FindEnd(response, d)))
       ELSE IF i # 0 THEN Strip(SubSeq(response, i + 3, FindClose(response, i + 3) - 1))
       ELSE Strip(response)
extract_code_from_response(response) ==
    LET i == FindOpen(response, 1)
        d == FindDef(response, 1)
    IN IF i # 0 THEN Strip(SubSeq(response, i + 3, FindClose(response, i + 3) - 1))
       ELSE IF d # 0 THEN Strip(SubSeq(response, d, FindEnd(response, d)))
       ELSE Strip(response)

\* repair_single_program, lines 161 and 165, and repair_all_programs, line 218
ErrorResult(msg) == [success |-> FALSE, error |-> msg]

\* repair_single_program, lines 186-193
SuccessResult_Or(algo, vs, ts, passed, tcs, pattern, fixed) ==
    [algorithm |-> algo, success |-> (vs \/ ts), passed_tests |-> passed,
     total_tests |-> Len(tcs), defect_pattern |-> pattern, fixed_code |-> fixed]
SuccessResult(algo, vs, ts, passed, tcs, pattern, fixed) ==
    [algorithm |-> algo, success |-> (vs /\ ts), passed_tests |-> passed,
     total_tests |-> Len(tcs), defect_pattern |-> pattern, fixed_code |-> fixed]

\* dict assignment d[k] = v and d.get(k, default)
Put(d, k, v) == [x \in DOMAIN d \cup {k} |-> IF x = k THEN v ELSE d[x]]
Get(d, k, default) == IF k \in DOMAIN d THEN d[k] ELSE default

\* generate_report.  A dict is iterated in the order of its keys' insertion, keys.
\* line 237: sum(1 for r in results.values() if r.get("success", False))
RECURSIVE CountSuccess(_, _)
CountSuccess(rs, keys) ==
    IF keys = << >> THEN 0
    ELSE (IF Get(rs[Head(keys)], "success", FALSE) THEN 1 ELSE 0) + CountSuccess(rs, Tail(keys))

\* line 238 as printed by line 243 with one decimal place, in tenths of a percent
\* (no quotient of up to 15 records falls halfway between two tenths)
success_rate(successful, total) ==
    IF total > 0 THEN (successful * 2000 + total) \div (2 * total) ELSE 0

\* lines 248-249
CountOne_SkipsUnlabelled(counts, r) ==
    IF "defect_pattern" \in DOMAIN r
    THEN Put(counts, r.defect_pattern, Get(counts, r.defect_pattern, 0) + 1)
    ELSE counts
CountOne(counts, r) ==
    LET pattern == Get(r, "defect_pattern", "unknown")
    IN Put(counts, pattern, Get(counts, pattern, 0) + 1)

\* lines 247-249
RECURSIVE CountPatterns(_, _, _)
CountPatterns(rs, keys, counts) ==
    IF keys = << >> THEN counts
    ELSE CountPatterns(rs, Tail(keys), CountOne(counts, rs[Head(keys)]))

\* lines 259-261
StatusLine(a, r) ==
    [algorithm |-> a,
     status |-> IF Get(r, "success", FALSE) THEN "PASSED" ELSE "FAILED",
     passed_tests |-> Get(r, "passed_tests", 0),
     total_tests |-> Get(r, "total_tests", 0)]
RECURSIVE StatusLines(_, _)
StatusLines(rs, keys) ==
    IF keys = << >> THEN << >>
    ELSE <<StatusLine(Head(keys), rs[Head(keys)])>> \o StatusLines(rs, Tail(keys))

\* lines 230-265: what the call leaves in self.defect_patterns and in the dict it
\* was given, and the report it writes
generate_report_Accumulates(patterns, rs, keys) ==
    LET successful == CountSuccess(rs, keys)
        counts == CountPatterns(rs, keys, patterns)
    IN [defect_patterns |-> counts,
        results |-> rs,
        report |-> [total_programs |-> Cardinality(DOMAIN rs),
                    successful_repairs |-> successful,
                    success_rate |-> success_rate(successful, Cardinality(DOMAIN rs)),
                    defect_counts |-> counts,
                    status |-> StatusLines(rs, keys)]]
generate_report(patterns, rs, keys) ==
    LET successful == CountSuccess(rs, keys)
        counts == CountPatterns(rs, keys, EmptyDict)
    IN [defect_patterns |-> patterns,
        results |-> rs,
        report |-> [total_programs |-> Cardinality(DOMAIN rs),
                    successful_repairs |-> successful,
                    success_rate |-> success_rate(successful, Cardinality(DOMAIN rs)),
                    defect_counts |-> counts,
                    status |-> StatusLines(rs, keys)]]

(***************************************************************************)
(* Where control goes next.                                                *)
(***************************************************************************)
\* repair_single_program, line 160
AfterLoadSource(buggy) == IF Falsy(buggy) THEN "Store" ELSE "LoadTests"

\* repair_single_program, line 164
AfterLoadTests_NoCheck(tcs) == "Generate"
AfterLoadTests(tcs) == IF Falsy(tcs) THEN "Store" ELSE "Generate"

\* validate_fix, line 105: the for statement
NextInLoop(i, n) == IF i > n THEN "ValExit" ELSE "ValTest"

\* validate_fix, lines 98-105: a failure of exec_module or getattr leaves the try
AfterLoad_IgnoresFailure(load, n) == NextInLoop(1, n)
AfterLoad(load, n) == IF load = "loaded" THEN NextInLoop(1, n) ELSE "ValExit"

\* validate_fix, lines 106-116: the inner try ends every iteration normally
AfterTest_ExceptionAborts(outcome, i, n) ==
    IF outcome = "exception" THEN "ValExit" ELSE NextInLoop(i + 1, n)
AfterTest(outcome, i, n) == NextInLoop(i + 1, n)

\* repair_single_program, lines 173-176: the tester runs whatever validate_fix returned
AfterValidate_SkipsOnFailure(vs) == IF vs THEN "Tester" ELSE "Save"
AfterValidate(vs) == "Tester"

\* repair_all_programs, lines 216-218: the handler's effect on results
HandlerResults_NoRecord(res, algo, e) == res
HandlerResults(res, algo, e) == Put(res, algo, ErrorResult(e))

(***************************************************************************)
(* The program.                                                            *)
(***************************************************************************)
algo == algorithms[idx]

\* repair_all_programs, lines 200-208: the listing has been read, nothing is done yet
Init ==
    /\ defect_patterns = EmptyDict
    /\ algorithms \in Enumerations
    /\ idx = 1
    /\ pc = "Loop"
    /\ results = EmptyDict
    /\ successful_repairs = 0
    /\ buggy_code = None
    /\ test_cases = << >>
    /\ fixed_code = EmptyText
    /\ passed_tests = 0
    /\ ti = 1
    /\ validation_success = FALSE
    /\ tester_success = FALSE
    /\ result = NoResult
    /\ err = NoErr
    /\ fs = NoFiles
    /\ attempted = << >>
    /\ h = H0
    /\ vrun = V0

locals == <<buggy_code, test_cases, fixed_code, passed_tests, ti,
            validation_success, tester_success>>
batch == <<defect_patterns, algorithms, idx, results, successful_repairs, attempted>>

\* The locals of repair_single_program when it is not running
NoLocals ==
    /\ buggy_code' = None
    /\ test_cases' = << >>
    /\ fixed_code' = EmptyText
    /\ passed_tests' = 0
    /\ ti' = 1
    /\ validation_success' = FALSE
    /\ tester_success' = FALSE

\* An exception leaves repair_single_program: control is at the handler of line 216.
Throw(e, stage, seen) ==
    /\ pc' = "Except"
    /\ err' = e
    /\ h' = [seen EXCEPT !.raised = stage]

\* repair_all_programs, lines 210-212: the next algorithm, repair_single_program called
LoopNext ==
    /\ pc = "Loop"
    /\ idx <= Len(algorithms)
    /\ pc' = "LoadSource"
    /\ attempted' = Append(attempted, algo)
    /\ h' = H0
    /\ vrun' = V0
    /\ NoLocals
    /\ result' = NoResult
    /\ err' = NoErr
    /\ UNCHANGED <<defect_patterns, algorithms, idx, results, successful_repairs, fs>>

\* repair_all_programs, lines 220-222: the loop is over
LoopEnd ==
    /\ pc = "Loop"
    /\ idx > Len(algorithms)
    /\ pc' = "SaveResults"
    /\ h' = H0
    /\ result' = NoResult
    /\ err' = NoErr
    /\ UNCHANGED <<batch, locals, fs, vrun>>

\* repair_single_program, lines 159-161.  load_buggy_code catches FileNotFoundError
\* only: any other failure to open or read the file leaves it as an exception.
LoadSource ==
    /\ pc = "LoadSource"
    /\ \/ /\ Throw("OSError", "load_buggy_code", [h EXCEPT !.src = "unreadable"])
          /\ UNCHANGED <<buggy_code, result>>
       \/ \E exists \in BOOLEAN, content \in BuggyTexts \cup {EmptyText} :
            LET r == load_buggy_code(exists, content) IN
              /\ buggy_code' = r.value
              /\ pc' = AfterLoadSource(r.value)
              /\ result' = IF Falsy(r.value) THEN ErrorResult("Could not load buggy code")
                           ELSE result
              /\ h' = [h EXCEPT !.src = IF ~exists THEN "missing"
                                        ELSE IF content = EmptyText THEN "empty" ELSE "ok"]
              /\ err' = err
    /\ UNCHANGED <<batch, test_cases, fixed_code, passed_tests, ti,
                   validation_success, tester_success, fs, vrun>>

\* repair_single_program, lines 163-165
LoadTests ==
    /\ pc = "LoadTests"
    /\ \E exists \in BOOLEAN, lines \in OracleLines :
         LET r == load_test_cases(exists, lines)
             how == IF ~exists THEN "missing"
                    ELSE IF lines = << >> THEN "empty"
                    ELSE IF \E i \in 1..Len(lines) : lines[i] = "not json"
                         THEN "parse_error" ELSE "ok"
             read == IF exists THEN lines ELSE << >>
         IN IF r.raised # NoErr
            THEN /\ Throw(r.raised, "load_test_cases",
                          [h EXCEPT !.oracle = how, !.lines = read])
                 /\ UNCHANGED <<test_cases, result>>
            ELSE /\ test_cases' = r.value
                 /\ pc' = AfterLoadTests(r.value)
                 /\ result' = IF Falsy(r.value)
                              THEN ErrorResult("Could not load test cases") ELSE result
                 /\ h' = [h EXCEPT !.oracle = how, !.lines = read]
                 /\ err' = err
    /\ UNCHANGED <<batch, buggy_code, fixed_code, passed_tests, ti,
                   validation_success, tester_success, fs, vrun>>

\* repair_single_program, lines 168-170: the prompt, the generator's answer, the
\* candidate extracted from it
Generate ==
    /\ pc = "Generate"
    /\ \/ /\ PromptRaises(test_cases)
          /\ Throw("TypeError", "generate_enhanced_prompt", h)
          /\ UNCHANGED fixed_code
       \/ /\ ~PromptRaises(test_cases)
          /\ Throw("GeneratorError", "generate_content", [h EXCEPT !.gen = @ + 1])
          /\ UNCHANGED fixed_code
       \/ /\ ~PromptRaises(test_cases)
          /\ \E text \in FixedTexts : fixed_code' = text
          /\ pc' = "ValWrite"
          /\ h' = [h EXCEPT !.gen = @ + 1]
          /\ err' = err
    /\ UNCHANGED <<batch, buggy_code, test_cases, passed_tests, ti,
                   validation_success, tester_success, result, fs, vrun>>

\* validate_fix, lines 91-96: the candidate is written to temp_<algo>.py.  open may
\* fail before the file exists, and write may fail after open has created it; both
\* are outside the try statement and leave validate_fix as an exception.
ValWrite ==
    /\ pc = "ValWrite"
    /\ \/ /\ Throw("OSError", "validate_fix", [h EXCEPT !.val = @ + 1])
          /\ UNCHANGED <<fs, passed_tests, ti>>
       \/ /\ fs' = [fs EXCEPT !.temp = @ \cup {algo}]
          /\ Throw("OSError", "validate_fix", [h EXCEPT !.val = @ + 1])
          /\ UNCHANGED <<passed_tests, ti>>
       \/ /\ fs' = [fs EXCEPT !.temp = @ \cup {algo}]
          /\ passed_tests' = 0
          /\ ti' = 1
          /\ pc' = "ValLoad"
          /\ h' = [h EXCEPT !.val = @ + 1]
          /\ err' = err
    /\ UNCHANGED <<batch, buggy_code, test_cases, fixed_code,
                   validation_success, tester_success, result, vrun>>

\* validate_fix, lines 98-103: exec_module and getattr
ValLoad ==
    /\ pc = "ValLoad"
    /\ \E load \in LoadOutcomes :
         /\ pc' = AfterLoad(load, total_tests(test_cases))
         /\ h' = [h EXCEPT !.load = load]
    /\ UNCHANGED <<batch, locals, result, err, fs, vrun>>

\* validate_fix, lines 105-116: one iteration of the test loop.  An entry that does
\* not unpack into (test_input, expected_output) raises at the for statement, outside
\* the inner try: the outer except takes it and the loop is over.
ValTest ==
    /\ pc = "ValTest"
    /\ ti <= Len(test_cases)
    /\ \/ /\ test_cases[ti] # "pair"
          /\ pc' = "ValExit"
          /\ UNCHANGED <<passed_tests, ti, vrun>>
       \/ /\ test_cases[ti] = "pair"
          /\ \E outcome \in TestOutcomes :
               /\ passed_tests' = ScoreTest(outcome, passed_tests)
               /\ ti' = ti + 1
               /\ pc' = AfterTest(outcome, ti, total_tests(test_cases))
               /\ vrun' = [calls |-> Append(vrun.calls, ti),
                            outcomes |-> Append(vrun.outcomes, outcome)]
    /\ UNCHANGED <<batch, buggy_code, test_cases, fixed_code,
                   validation_success, tester_success, result, err, fs, h>>

\* validate_fix, lines 118-125, and the assignment of line 173
ValExit ==
    /\ pc = "ValExit"
    /\ fs' = [fs EXCEPT !.temp = @ \ {algo}]
    /\ LET r == validate_return(passed_tests, total_tests(test_cases)) IN
         /\ validation_success' = r[1]
         /\ passed_tests' = r[2]
         /\ pc' = AfterValidate(r[1])
    /\ h' = [h EXCEPT !.ret = TRUE]
    /\ UNCHANGED <<batch, buggy_code, test_cases, fixed_code, ti,
                   tester_success, result, err, vrun>>

\* repair_single_program, line 176
Tester ==
    /\ pc = "Tester"
    /\ \E outcome \in TesterOutcomes :
         LET r == run_tester_py(outcome)
             seen == [h EXCEPT !.tester = @ + 1, !.tout = outcome]
         IN IF r.raised # NoErr
            THEN /\ Throw(r.raised, "run_tester_py", seen)
                 /\ UNCHANGED tester_success
            ELSE /\ tester_success' = r.value
                 /\ pc' = "Save"
                 /\ h' = seen
                 /\ err' = err
    /\ vrun' = V0
    /\ UNCHANGED <<batch, buggy_code, test_cases, fixed_code, passed_tests, ti,
                   validation_success, result, fs>>

\* repair_single_program, lines 179-181
Save ==
    /\ pc = "Save"
    /\ \/ /\ Throw("OSError", "save", h)
          /\ UNCHANGED fs
       \/ /\ fs' = [fs EXCEPT !.repaired = @ \cup {algo}]
          /\ pc' = "Classify"
          /\ h' = [h EXCEPT !.saved = TRUE]
          /\ err' = err
    /\ UNCHANGED <<batch, locals, result, vrun>>

\* repair_single_program, lines 184-196
Classify ==
    /\ pc = "Classify"
    /\ result' = SuccessResult(algo, validation_success, tester_success, passed_tests,
                               test_cases, analyze_defect_pattern(buggy_code, fixed_code),
                               fixed_code)
    /\ pc' = "Store"
    /\ h' = [h EXCEPT !.classified = TRUE]
    /\ UNCHANGED <<batch, locals, err, fs, vrun>>

\* repair_all_programs, lines 212-215
Store ==
    /\ pc = "Store"
    /\ results' = Put(results, algo, result)
    /\ successful_repairs' = IF Get(result, "success", FALSE)
                             THEN successful_repairs + 1 ELSE successful_repairs
    /\ idx' = idx + 1
    /\ pc' = "Loop"
    /\ NoLocals
    /\ UNCHANGED <<defect_patterns, algorithms, attempted, result, err, fs, h, vrun>>

\* repair_all_programs, lines 216-218
Except ==
    /\ pc = "Except"
    /\ results' = HandlerResults(results, algo, err)
    /\ idx' = idx + 1
    /\ pc' = "Loop"
    /\ NoLocals
    /\ UNCHANGED <<defect_patterns, algorithms, attempted, successful_repairs, result,
                   err, fs, h, vrun>>

\* repair_all_programs, lines 224-228: an exception here leaves repair_all_programs
\* and main, which has no handler
SaveResults ==
    /\ pc = "SaveResults"
    /\ \/ /\ pc' = "Crashed"
          /\ err' = "OSError"
          /\ h' = [h EXCEPT !.raised = "repair_all_programs"]
          /\ UNCHANGED fs
       \/ /\ fs' = [fs EXCEPT !.results_json = TRUE]
          /\ pc' = "Report"
          /\ err' = NoErr
          /\ h' = h
    /\ UNCHANGED <<batch, locals, result, vrun>>

\* main, line 307: generate_report, lines 230-267
Report ==
    /\ pc = "Report"
    /\ \/ /\ pc' = "Crashed"
          /\ err' = "OSError"
          /\ h' = [h EXCEPT !.raised = "generate_report"]
          /\ UNCHANGED fs
       \/ /\ fs' = [fs EXCEPT !.report_md = TRUE]
          /\ pc' = "Menu"
          /\ err' = NoErr
          /\ h' = h
    /\ UNCHANGED <<batch, locals, result, vrun>>

Next ==
    \/ LoopNext \/ LoopEnd
    \/ LoadSource \/ LoadTests \/ Generate
    \/ ValWrite \/ ValLoad \/ ValTest \/ ValExit
    \/ Tester \/ Save \/ Classify
    \/ Store \/ Except
    \/ SaveResults \/ Report

Spec == Init /\ [][Next]_vars

(***************************************************************************)
(* Single functions, called on every input of a bounded set.  The          *)
(* variables the call does not touch stay as the constructor left them.    *)
(***************************************************************************)
MaxText == 3             \* longest text given to analyze_defect_pattern

untouched == <<algorithms, idx, successful_repairs, test_cases, passed_tests, ti,
               validation_success, tester_success, err, fs, attempted, vrun>>
Untouched ==
    /\ algorithms = << >>
    /\ idx = 1
    /\ successful_repairs = 0
    /\ test_cases = << >>
    /\ passed_tests = 0
    /\ ti = 1
    /\ validation_success = FALSE
    /\ tester_success = FALSE
    /\ err = NoErr
    /\ fs = NoFiles
    /\ attempted = << >>
    /\ vrun = V0

\* analyze_defect_pattern(algo, buggy_code, fixed_code) on every pair of texts
Texts == SeqsUpTo(TextSymbols, MaxText)

ClassifyInit ==
    /\ pc = "analyze_defect_pattern"
    /\ buggy_code \in Texts
    /\ fixed_code \in Texts
    /\ result = NoResult
    /\ results = EmptyDict
    /\ defect_patterns = EmptyDict
    /\ h = H0
    /\ Untouched

ClassifyCall ==
    /\ pc = "analyze_defect_pattern"
    /\ result' = [defect_pattern |-> analyze_defect_pattern(buggy_code, fixed_code)]
    /\ pc' = "returned"
    /\ UNCHANGED <<untouched, buggy_code, fixed_code, results, defect_patterns, h>>

SpecClassify == ClassifyInit /\ [][ClassifyCall]_vars

\* extract_code_from_response(response) on every response; h holds the argument
MaxResponse == 6         \* longest response, in pieces
Responses == SeqsUpTo(ResponseSymbols, MaxResponse)

ExtractInit ==
    /\ pc = "extract_code_from_response"
    /\ h \in [response : Responses]
    /\ fixed_code = EmptyText
    /\ buggy_code = None
    /\ result = NoResult
    /\ results = EmptyDict
    /\ defect_patterns = EmptyDict
    /\ Untouched

ExtractCall ==
    /\ pc = "extract_code_from_response"
    /\ fixed_code' = extract_code_from_response(h.response)
    /\ pc' = "returned"
    /\ UNCHANGED <<untouched, buggy_code, result, results, defect_patterns, h>>

SpecExtract == ExtractInit /\ [][ExtractCall]_vars

\* generate_report(results), called repeatedly on every collection of records;
\* h holds the collection as given, its key order, the number of calls made and
\* the report of the first call, result the report of the last call
MaxRecords == 3          \* most records in a collection
MaxCalls == 2            \* most calls of generate_report
ReportIds == {"gcd", "sqrt", "lis"}
KeyOrders ==
    { ks \in SeqsUpTo(ReportIds, MaxRecords) : \A i, j \in 1..Len(ks) : i # j => ks[i] # ks[j] }
RecordsFor(a) ==
    { SuccessResult(a, TRUE, TRUE, 2, <<"pair", "pair">>, "boundary-condition", <<"<">>),
      SuccessResult(a, FALSE, TRUE, 1, <<"pair", "pair">>, "unknown-pattern", <<">", "=">>),
      SuccessResult(a, TRUE, FALSE, 1, <<"pair">>, "boundary-condition", <<"<">>),
      ErrorResult("Could not load buggy code"),
      ErrorResult("OSError") }
Collections(ks) ==
    { rs \in [{ ks[i] : i \in 1..Len(ks) } -> UNION { RecordsFor(a) : a \in ReportIds }] :
        \A a \in DOMAIN rs : rs[a] \in RecordsFor(a) }

ReportInit ==
    /\ pc = "generate_report"
    /\ \E ks \in KeyOrders : \E rs \in Collections(ks) :
          /\ results = rs
          /\ h = [keys |-> ks, given |-> rs, calls |-> 0, first |-> NoResult]
    /\ result = NoResult
    /\ defect_patterns = EmptyDict
    /\ buggy_code = None
    /\ fixed_code = None
    /\ Untouched

ReportCall ==
    /\ pc = "generate_report"
    /\ h.calls < MaxCalls
    /\ LET out == generate_report(defect_patterns, results, h.keys)
       IN \/ /\ pc' = "Crashed"
             /\ err' = "OSError"
             /\ UNCHANGED <<results, defect_patterns, result, fs, h>>
          \/ /\ results' = out.results
             /\ defect_patterns' = out.defect_patterns
             /\ result' = out.report
             /\ fs' = [fs EXCEPT !.report_md = TRUE]
             /\ h' = [h EXCEPT !.calls = @ + 1,
                               !.first = IF h.calls = 0 THEN out.report ELSE @]
             /\ UNCHANGED <<pc, err>>
    /\ UNCHANGED <<algorithms, idx, successful_repairs, test_cases, passed_tests, ti,
                   validation_success, tester_success, attempted, vrun,
                   buggy_code, fixed_code>>

SpecReport == ReportInit /\ [][ReportCall]_vars

(***************************************************************************)
(* Properties.                                                             *)
(***************************************************************************)
Range(f) == { f[i] : i \in DOMAIN f }
Upto(n) == [i \in 1..n |-> i]
CountEqual(outcomes) == Cardinality({ i \in 1..Len(outcomes) : outcomes[i] = "equal" })
AllPairs(tcs) == \A i \in 1..Len(tcs) : tcs[i] = "pair"
LoadFailed == h.load \in {"parse_error", "no_function"}
IsFullRecord(r) == "algorithm" \in DOMAIN r
IsErrorRecord(r) == "error" \in DOMAIN r
\* validate_fix has just returned to repair_single_program
Returned == pc = "Tester" /\ h.ret
\* the loop is between two attempts, the last one being of algorithms[idx - 1]
AttemptOver == pc = "Loop" /\ idx > 1
LastId == algorithms[idx - 1]
AfterLoop == pc \in {"SaveResults", "Report", "Menu", "Crashed"}

\* C1: once the candidate has loaded, validate_fix calls every test case of a
\* well-formed oracle set exactly once, in order, whatever each call does: an
\* exception on one test does not stop the later tests, and passed_tests is the
\* number of calls whose result equalled the expected value.
C1_FaultIsolation ==
    /\ pc \in {"ValTest", "ValExit", "Tester"} => vrun.calls = Upto(Len(vrun.calls))
    /\ (Returned /\ h.load = "loaded" /\ AllPairs(test_cases)) =>
         /\ vrun.calls = Upto(Len(test_cases))
         /\ Len(vrun.outcomes) = Len(test_cases)
         /\ passed_tests = CountEqual(vrun.outcomes)

C1_Witness ==
    /\ Returned /\ h.load = "loaded" /\ AllPairs(test_cases)
    /\ vrun.calls = <<1, 2>>
    /\ vrun.outcomes = <<"exception", "equal">>
    /\ passed_tests = 1

\* C2: whenever validate_fix returns (all tests run, the candidate did not load, or
\* the test loop was left early), success is true exactly when passed_tests equals
\* the length of the oracle set, and 0 <= passed_tests <= that length.
C2_SuccessIffAllPassed ==
    Returned =>
      /\ validation_success <=> (passed_tests = Len(test_cases))
      /\ 0 <= passed_tests /\ passed_tests <= Len(test_cases)

C2_Witness ==
    /\ Returned /\ h.load = "loaded"
    /\ test_cases = <<"pair", "long">>
    /\ vrun.calls = <<1>>
    /\ passed_tests = 1
    /\ ~validation_success

\* C3: when the candidate text defines no function named after the algorithm id,
\* no test case is called and passed_tests is 0.
C3_NoFunctionNoCalls ==
    h.load = "no_function" =>
      /\ pc # "ValTest"
      /\ vrun.calls = << >>
      /\ passed_tests = 0
      /\ ~validation_success
      /\ (pc = "Store" /\ IsFullRecord(result)) => result.passed_tests = 0

C3_Witness ==
    /\ Returned /\ h.load = "no_function"
    /\ Len(test_cases) = 2 /\ AllPairs(test_cases)

\* C4 as claimed: after a load failure in validate_fix the attempt ends there;
\* run_tester_py is not called, nothing is classified and no record is produced.
C4_LoadErrorAborts ==
    LoadFailed =>
      /\ h.tester = 0
      /\ ~h.classified
      /\ ~(pc = "Store" /\ IsFullRecord(result))

\* C4 as amended: a load failure does not end the attempt.  validate_fix returns
\* (False, 0), run_tester_py is then called, and unless saving the candidate raises
\* the attempt is classified and yields a full record with success false and
\* passed_tests 0.
C4_LoadErrorRecorded ==
    LoadFailed =>
      /\ passed_tests = 0 /\ ~validation_success
      /\ (h.ret /\ pc # "Tester") => h.tester = 1
      /\ pc = "Except" => h.raised = "save"
      /\ pc = "Store" =>
           /\ IsFullRecord(result) /\ h.classified
           /\ ~result.success /\ result.passed_tests = 0
      /\ (AttemptOver /\ h.raised = "none") =>
           /\ IsFullRecord(results[LastId])
           /\ ~results[LastId].success

C4_Witness ==
    /\ h.load = "parse_error" /\ pc = "Store"
    /\ IsFullRecord(result) /\ h.tester = 1 /\ h.tout = "exit0"

\* C5: outside the body of validate_fix the artifact temp_<algo>.py does not exist:
\* it is removed on every way out, so no attempt starts with one left behind.
C5_ArtifactRemoved ==
    pc \notin {"ValLoad", "ValTest", "ValExit"} => fs.temp = {}

\* C6: run_tester_py returns true only if the process exited with status 0 in time;
\* on a timeout or any other fault it returns false, and it never raises.
C6_TesterDegrades ==
    /\ h.raised # "run_tester_py"
    /\ h.tester <= 1
    /\ h.tester = 1 =>
         /\ tester_success => h.tout = "exit0"
         /\ pc \in {"Save", "Classify", "Store"} => (tester_success <=> h.tout = "exit0")

C6_Witness ==
    pc = "Save" /\ h.tester = 1 /\ h.tout = "timeout" /\ ~tester_success

\* C7: a record produced after validation is successful exactly when validate_fix
\* reported success and run_tester_py returned true.
C7_OverallSuccess ==
    /\ (pc = "Store" /\ IsFullRecord(result)) =>
         /\ result.success <=> (validation_success /\ tester_success)
         /\ result.success => (h.tout = "exit0" /\ result.passed_tests = result.total_tests)
    /\ \A k \in DOMAIN results :
         (IsFullRecord(results[k]) /\ results[k].success) =>
            results[k].passed_tests = results[k].total_tests

C7_Witness ==
    /\ pc = "Store" /\ IsFullRecord(result)
    /\ ~result.success /\ validation_success /\ ~tester_success

\* An attempt met a fault at some stage (files missing or unreadable, an exception,
\* the tester timing out or failing to start)
Propagated == h.raised # "none"
LoadAbandoned == h.src \in {"missing", "empty"} \/ h.oracle \in {"missing", "empty"}
TesterFault == h.tout \in {"timeout", "error"}

\* C8 as claimed: whatever the stage of the fault, the algorithm is recorded with
\* success false and an error descriptor, and every enumerated id gets a record.
C8_EveryFaultDescribed ==
    /\ AttemptOver =>
         /\ LastId \in DOMAIN results
         /\ (Propagated \/ LoadAbandoned \/ TesterFault) =>
              (~results[LastId].success /\ IsErrorRecord(results[LastId]))
    /\ AfterLoop => (attempted = algorithms /\ DOMAIN results = Range(algorithms))

\* C8 as amended: a fault that leaves repair_single_program as an exception, or a
\* source or oracle file that is missing or empty, is recorded with success false
\* and an error descriptor; a fault of the external tester is absorbed inside
\* run_tester_py and the attempt is recorded with success false without an error
\* descriptor unless a later stage raises.  Every later algorithm is attempted
\* and at the end of the loop every enumerated id has a record.
C8_BatchIsolation ==
    /\ pc = "Loop" => (attempted = SubSeq(algorithms, 1, idx - 1)
                       /\ DOMAIN results = Range(attempted))
    /\ AttemptOver =>
         /\ (Propagated \/ LoadAbandoned) =>
              (~results[LastId].success /\ IsErrorRecord(results[LastId]))
         /\ (TesterFault /\ ~Propagated) =>
              (~results[LastId].success /\ ~IsErrorRecord(results[LastId]))
    /\ AfterLoop => (attempted = algorithms /\ DOMAIN results = Range(algorithms))

C8_Witness ==
    /\ AttemptOver /\ idx = 3
    /\ algorithms[1] # algorithms[2]
    /\ IsErrorRecord(results[algorithms[1]])
    /\ results[algorithms[1]].error = "GeneratorError"
    /\ TesterFault /\ ~Propagated
    /\ IsFullRecord(results[algorithms[2]])

\* C9: when the source file or the oracle file is missing, the generator, the
\* Validator and the external tester are not called for that algorithm, its record
\* has success false and no passed count, and the loop goes on.
C9_MissingFilesAbandon ==
    /\ (h.src = "missing" \/ h.oracle = "missing") =>
         /\ h.gen = 0 /\ h.val = 0 /\ h.tester = 0
         /\ pc \in {"Store", "Loop"}
         /\ pc = "Store" => (~result.success /\ "passed_tests" \notin DOMAIN result)
         /\ pc = "Loop" =>
              /\ idx = Len(attempted) + 1
              /\ ~results[LastId].success
              /\ "passed_tests" \notin DOMAIN results[LastId]
    /\ AfterLoop => Len(attempted) = Len(algorithms)

C9_Witness ==
    /\ AttemptOver /\ h.oracle = "missing"
    /\ idx = 2 /\ Len(algorithms) = 2
    /\ results[LastId] = ErrorResult("Could not load test cases")

\* C10: the two writes are independent: when writing repair_results.json fails,
\* evaluation_report.md is still written, and when writing the report fails,
\* repair_results.json stays written.
C10_WritesIndependent ==
    pc = "Crashed" =>
      /\ h.raised = "repair_all_programs" => fs.report_md
      /\ h.raised = "generate_report" => fs.results_json

\* C11: loading an oracle set is all or nothing.  If any line of the file does not
\* parse, load_test_cases raises, no test case of the file reaches generation or
\* validation and the attempt ends with an error record; otherwise the oracle set
\* holds exactly one test case per line, in file order.
TestCasesLive == pc \in {"Generate", "ValWrite", "ValLoad", "ValTest", "ValExit",
                         "Tester", "Save", "Classify"}
C11_OracleAllOrNothing ==
    /\ h.oracle = "parse_error" =>
         /\ test_cases = << >>
         /\ h.gen = 0 /\ h.val = 0 /\ h.tester = 0
         /\ pc \in {"Except", "Loop"}
         /\ h.raised = "load_test_cases"
         /\ pc = "Loop" => (IsErrorRecord(results[LastId]) /\ ~results[LastId].success)
    /\ (h.oracle = "ok" /\ TestCasesLive) =>
         /\ Len(test_cases) = Len(h.lines)
         /\ \A i \in 1..Len(h.lines) : Ret(test_cases[i]) = json_loads(h.lines[i])

C11_Witness ==
    /\ h.oracle = "parse_error" /\ pc = "Except"
    /\ h.lines = <<"[[35, 21], 7]", "not json">>

\* C13: analyze_defect_pattern returns one of the four labels, chosen by the first
\* rule that matches in the order off-by-one, operator, boundary: when both texts
\* contain "range(" the label is the off-by-one label whatever else they contain,
\* and it is the unknown label when no rule matches.
DefectLabels == {"off-by-one-error", "incorrect-operator", "boundary-condition",
                 "unknown-pattern"}
RangeRule == Contains(<<"range(">>, buggy_code) /\ Contains(<<"range(">>, fixed_code)
OperatorRule == Contains(<<"=", "=">>, buggy_code) /\ Contains(<<"!", "=">>, fixed_code)
BoundaryRule == Contains(<<">">>, buggy_code) /\ Contains(<<"<">>, fixed_code)
C13_FirstMatchingRule ==
    pc = "returned" =>
      /\ result.defect_pattern \in DefectLabels
      /\ RangeRule => result.defect_pattern = "off-by-one-error"
      /\ (~RangeRule /\ OperatorRule) => result.defect_pattern = "incorrect-operator"
      /\ (~RangeRule /\ ~OperatorRule /\ BoundaryRule) =>
           result.defect_pattern = "boundary-condition"
      /\ (~RangeRule /\ ~OperatorRule /\ ~BoundaryRule) =>
           result.defect_pattern = "unknown-pattern"

C13_Witness ==
    /\ pc = "returned"
    /\ buggy_code = <<"range(", "=", "=">>
    /\ fixed_code = <<"range(", "!", "=">>
    /\ result.defect_pattern = "off-by-one-error"

\* What the three rules of extract_code_from_response look for, stated on the text.
\* A fenced region opens with a python fence marker and a newline and closes with a newline
\* and a fence marker; the first one is the leftmost opening that has a closing, up to the
\* nearest closing.
FenceAt(t, i, j) == OpensAt(t, i) /\ j >= i + 3 /\ ClosesAt(t, j)
HasFence(t) == \E i, j \in 1..Len(t) : FenceAt(t, i, j)
FirstFence(t) ==
    LET i0 == CHOOSE i \in 1..Len(t) :
                /\ \E j \in 1..Len(t) : FenceAt(t, i, j)
                /\ \A k \in 1..(i - 1) : ~\E j \in 1..Len(t) : FenceAt(t, k, j)
        j0 == CHOOSE j \in 1..Len(t) :
                /\ FenceAt(t, i0, j)
                /\ \A k \in 1..(j - 1) : ~FenceAt(t, i0, k)
    IN SubSeq(t, i0 + 3, j0 - 1)
HasDef(t) == \E i \in 1..Len(t) : t[i] = Def
FirstDefSpan(t) ==
    LET d0 == CHOOSE d \in 1..Len(t) : t[d] = Def /\ \A k \in 1..(d - 1) : t[k] # Def
        e0 == CHOOSE e \in d0..Len(t) : EndsAt(t, e) /\ \A k \in d0..(e - 1) : ~EndsAt(t, k)
    IN SubSeq(t, d0, e0)
\* t without its leading and trailing whitespace
Trimmed(t) ==
    LET keep == { i \in 1..Len(t) : ~IsSpace(t[i]) }
    IN IF keep = {} THEN << >>
       ELSE SubSeq(t, CHOOSE a \in keep : \A b \in keep : a <= b,
                      CHOOSE a \in keep : \A b \in keep : a >= b)

C12_ReportIdempotent ==
    h.calls >= 1 =>
      /\ results = h.given
      /\ defect_patterns = EmptyDict
      /\ result = h.first

C12_Witness ==
    /\ h.calls = 2
    /\ Cardinality(DOMAIN results) = 2
    /\ result = h.first
    /\ result.total_programs = 2
    /\ \E a \in DOMAIN result.defect_counts : result.defect_counts[a] = 2

RECURSIVE SumOver(_, _)
SumOver(f, S) ==
    IF S = {} THEN 0
    ELSE LET x == CHOOSE y \in S : TRUE IN f[x] + SumOver(f, S \ {x})

\* C16: for every record collection, error records included, the report has
\* total = number of records; succeeded = number of records whose success is true,
\* at most total; label counts summing to total; one status entry per record; and
\* a success rate of 0 for the empty collection.
C16_SummaryInvariants ==
    h.calls >= 1 =>
      LET total == Cardinality(DOMAIN results)
      IN /\ result.total_programs = total
         /\ result.successful_repairs = Cardinality({ a \in DOMAIN results : results[a].success })
         /\ result.successful_repairs <= result.total_programs
         /\ SumOver(result.defect_counts, DOMAIN result.defect_counts) = total
         /\ Len(result.status) = total
         /\ \A a \in DOMAIN results :
              Cardinality({ i \in 1..Len(result.status) : result.status[i].algorithm = a }) = 1
         /\ (total = 0 => result.success_rate = 0)

C16_Witness ==
    /\ h.calls >= 1
    /\ \E a, b \in DOMAIN results :
         /\ IsErrorRecord(results[a])
         /\ results[b].success
    /\ result.total_programs = 3
    /\ result.successful_repairs = 1
    /\ result.success_rate = 333
    /\ "unknown" \in DOMAIN result.defect_counts

\* C15: in an attempt that got past loading, the stages run in the order
\* generation, validation, tester, save and classification, record, each at most
\* once: run_tester_py is called only after validate_fix has returned, it is called
\* whether validation succeeded or failed, and the attempt ends with a record
\* whether or not the candidate passed.
C15_StageOrder ==
    /\ h.gen <= 1 /\ h.val <= 1 /\ h.tester <= 1
    /\ h.val = 1 => h.gen = 1
    /\ h.ret => h.val = 1
    /\ h.tester = 1 => h.ret
    /\ (h.ret /\ pc # "Tester") => h.tester = 1
    /\ h.saved => h.tester = 1
    /\ h.classified => h.saved
    /\ (pc = "Store" /\ h.gen = 1) =>
         /\ h.classified /\ IsFullRecord(result)
         /\ result.success = (validation_success /\ tester_success)
    /\ (AttemptOver /\ h.gen = 1) =>
         /\ LastId \in DOMAIN results
         /\ h.classified => IsFullRecord(results[LastId])

C15_Witness ==
    /\ pc = "Store" /\ h.load = "loaded"
    /\ h.gen = 1 /\ h.val = 1 /\ h.ret /\ h.tester = 1 /\ h.classified
    /\ ~validation_success /\ tester_success
    /\ IsFullRecord(result) /\ ~result.success

\* C17: no attempt is recorded as successful on an empty oracle set: a record with
\* success true has total_tests >= 1 and passed_tests = total_tests, and an
\* algorithm whose oracle set came out empty ends with success false without
\* generation or validation having run.
SuccessHasTests(r) ==
    Get(r, "success", FALSE) =>
      /\ IsFullRecord(r)
      /\ r.total_tests >= 1
      /\ r.passed_tests = r.total_tests
C17_NoSuccessOnEmptyOracle ==
    /\ \A a \in DOMAIN results : SuccessHasTests(results[a])
    /\ pc = "Store" => SuccessHasTests(result)
    /\ h.oracle \in {"missing", "empty", "parse_error"} =>
         /\ h.gen = 0 /\ h.val = 0
         /\ pc = "Store" => result = ErrorResult("Could not load test cases")
         /\ (AttemptOver /\ h.raised = "none") =>
              results[LastId] = ErrorResult("Could not load test cases")

C17_Witness ==
    /\ AttemptOver /\ idx = 3
    /\ algorithms = <<"gcd", "sqrt">>
    /\ h.oracle = "empty" /\ h.gen = 0
    /\ ~results["sqrt"].success
    /\ results["gcd"].success /\ results["gcd"].total_tests = 2

\* C18: after the loop the batch's totals agree with the keyed records: as many
\* records as algorithms attempted, and successful_repairs equal to the number of
\* records whose success is true.
C18_TotalsAgree ==
    AfterLoop =>
      /\ Len(algorithms) = Cardinality(DOMAIN results)
      /\ successful_repairs = Cardinality({ a \in DOMAIN results : results[a].success })

====
